---------------------------- MODULE Spec2Model ----------------------------
(***************************************************************************)
(* A model of libtc's Deluge adapter, src/libtc/clients/deluge.py:         *)
(* DelugeClient and its operations list, list_active, start, stop,         *)
(* test_connection, add, remove and retrieve_torrentfile.                  *)
(*                                                                         *)
(* One caller issues one call at a time.  A call that talks to the daemon  *)
(* runs through the control points of `with self.client as client:`,       *)
(*   "enter" (DelugeRPCClient.__enter__: connect and log in),              *)
(*   "call"  (the one RPC request inside the with block),                  *)
(*   "exit"  (DelugeRPCClient.__exit__: disconnect, then the code that     *)
(*            follows the try/except),                                     *)
(* and ends at "done" with its outcome (returned or raised) in `outcome`;   *)
(* the caller then takes the outcome and the adapter is "idle" again.      *)
(* The daemon, the network and the filesystem are the environment: their   *)
(* answers are drawn from small sets.                                      *)
(***************************************************************************)
EXTENDS Integers, Sequences, FiniteSets, TLC

VARIABLES
    self,       \* the adapter: its attributes, NoObject while there is none
    pc,         \* control point of the call in progress, "idle" between calls
    op,         \* name of the operation called last
    args,       \* its arguments
    observed,   \* add: size found on disk for each declared file (Absent if none)
                \* retrieve_torrentfile: the files found in the session directory
    gate,       \* add: "accept"/"reject" once line 117 was evaluated, else "none"
    encoded_torrent, \* add: local variable encoded_torrent (line 120)
    infohash,   \* add: local variable infohash (line 121)
    options,    \* add: local variable options (lines 122-131)
    sent,       \* requests this call has issued to the daemon, in order
    connects,   \* number of times this call has entered `with self.client`
    sessions,   \* number of sessions the adapter holds open with the daemon
    pending,    \* class of the exception the with statement raised, None if none
    result,     \* value the RPC request returned, None if none
    daemon,     \* infohashes of the torrents the daemon holds
    before,     \* value of daemon when the call began
    outcome,    \* how the last call ended
    previous,   \* the error of the caller's last failed add and how it failed
    pair,       \* two torrents and a reply, and what line 121 and 139 make of them
    threads,    \* concurrent callers: each one's control point, call and client
    clients,    \* the DelugeRPCClient objects made for concurrent callers
    created     \* the number of them made so far

\* The adapter and the one call its caller has in progress.
callvars == <<self, pc, op, args, observed, gate, encoded_torrent, infohash,
              options, sent, connects, sessions, pending, result, daemon, before,
              outcome>>

\* What only some specifications use: SpecErrors (previous), SpecInfohash
\* (pair), SpecThreads (threads, clients, created).
others == <<pair, threads, clients, created>>

aside == <<previous, others>>

vars == <<callvars, aside>>

None == "None"

(***************************************************************************)
(* Bounds of the model.                                                    *)
(***************************************************************************)
\* The sizes the filesystem scan may observe range over 1..MaxSize.
MaxSize == 2

Absent == -1

ObservedSizes == {Absent} \cup (1..MaxSize)

(***************************************************************************)
(* Paths (pathlib.Path): absolute or relative, a sequence of components.   *)
(***************************************************************************)
Path(abs, parts) == [abs |-> abs, parts |-> parts]

\* The process's working directory and the one symbolic link of the model.
Cwd == <<"w">>
LinkFrom == <<"lnk">>
LinkTo == <<"w", "d">>

\* Path.__truediv__ with a relative right operand.
Join(p, rel) == [abs |-> p.abs, parts |-> p.parts \o rel]

RECURSIVE JoinStr(_)
JoinStr(parts) ==
    IF parts = <<>> THEN ""
    ELSE IF Len(parts) = 1 THEN parts[1]
    ELSE parts[1] \o "/" \o JoinStr(Tail(parts))

\* str(path)
Str(p) == (IF p.abs THEN "/" ELSE "") \o JoinStr(p.parts)

RECURSIVE ResolveParts(_, _)
ResolveParts(acc, rest) ==
    IF rest = <<>> THEN acc
    ELSE LET c == Head(rest)
             nxt == IF c = "." THEN acc
                    ELSE IF c = ".."
                         THEN (IF acc = <<>> THEN acc ELSE SubSeq(acc, 1, Len(acc) - 1))
                    ELSE IF Append(acc, c) = LinkFrom THEN LinkTo
                    ELSE Append(acc, c)
         IN  ResolveParts(nxt, Tail(rest))

\* Path.resolve(): absolute, "." and ".." removed, symbolic links followed.
Resolve(p) ==
    [abs |-> TRUE,
     parts |-> ResolveParts(<<>>, (IF p.abs THEN <<>> ELSE Cwd) \o p.parts)]

(***************************************************************************)
(* Torrents: the decoded form, a mapping with an info mapping.             *)
(***************************************************************************)
SingleTorrent ==
    [info |-> [name |-> "a", length |-> 2, piece_length |-> 1, pieces |-> "p"],
     announce |-> "t"]

MultiTorrent ==
    [info |-> [name |-> "m",
               files |-> << [path |-> <<"x">>, length |-> 1],
                            [path |-> <<"s", "y">>, length |-> 2] >>,
               piece_length |-> 1, pieces |-> "q"],
     announce |-> "t"]

Torrents == {SingleTorrent, MultiTorrent}

IsSingle(torrent) == "length" \in DOMAIN torrent.info

\* The declared files, in declared order: <<relative path, length>>.
DeclaredFiles(torrent) ==
    IF IsSingle(torrent)
    THEN << [path |-> <<torrent.info.name>>, length |-> torrent.info.length] >>
    ELSE torrent.info.files

Destinations ==
    { Path(TRUE, <<"w", "d">>),
      Path(FALSE, <<"d">>),
      Path(TRUE, <<"w", "e", "..", "d">>),
      Path(TRUE, <<"lnk">>) }

MinimumExpectedData == {"none", "high", "full"}


(***************************************************************************)
(* The bencode codec and the digest.  bencode writes an integer as         *)
(* i<decimal>e, a byte string as <length>:<bytes>, a list as l...e and a   *)
(* mapping as d...e with its keys in ascending order.                      *)
(***************************************************************************)
BencodeInt(n) == "i" \o ToString(n) \o "e"

BencodeStr(s) == ToString(Len(s)) \o ":" \o s

RECURSIVE BencodeStrList(_)
BencodeStrList(l) ==
    IF l = <<>> THEN "" ELSE BencodeStr(Head(l)) \o BencodeStrList(Tail(l))

BencodeFile(f) ==
    "d" \o BencodeStr("length") \o BencodeInt(f.length)
        \o BencodeStr("path") \o "l" \o BencodeStrList(f.path) \o "e" \o "e"

RECURSIVE BencodeFileList(_)
BencodeFileList(l) ==
    IF l = <<>> THEN "" ELSE BencodeFile(Head(l)) \o BencodeFileList(Tail(l))

\* bencode(torrent[b'info'])
BencodeInfo(info) ==
    "d" \o (IF "length" \in DOMAIN info
            THEN BencodeStr("length") \o BencodeInt(info.length)
            ELSE BencodeStr("files") \o "l" \o BencodeFileList(info.files) \o "e")
        \o BencodeStr("name") \o BencodeStr(info.name)
        \o BencodeStr("piece length") \o BencodeInt(info.piece_length)
        \o BencodeStr("pieces") \o BencodeStr(info.pieces)
        \o "e"

\* bencode(torrent)
Bencode(torrent) ==
    "d" \o BencodeStr("announce") \o BencodeStr(torrent.announce)
        \o BencodeStr("info") \o BencodeInfo(torrent.info) \o "e"

\* base64.b64encode: an injective re-encoding of the bytes.
B64Encode(bytes) == "b64(" \o bytes \o ")"

\* hashlib.sha1(bytes).hexdigest(): a digest, taken to be free of collisions.
Sha1Hex(bytes) == "sha1(" \o bytes \o ")"

\* A mutant of Infohash: the digest of the whole torrent.
InfohashOfWholeTorrent(torrent) == Sha1Hex(Bencode(torrent))

\* line 121
Infohash(torrent) == Sha1Hex(BencodeInfo(torrent.info))

EncodedTorrent(torrent) == B64Encode(Bencode(torrent))

(***************************************************************************)
(* The filesystem mapper and the completeness evaluator (libtc.utils).     *)
(* obs[i] is the size the scan finds at the expected path of the i-th      *)
(* declared file, Absent when there is no file.                            *)
(***************************************************************************)
ExpectedPath(torrent, path, add_name_to_folder, rel) ==
    IF IsSingle(torrent) \/ ~add_name_to_folder
    THEN Join(path, rel)
    ELSE Join(Join(path, <<torrent.info.name>>), rel)

\* One entry (fp, f, size, exists) per declared file, in declared order.
map_existing_files(torrent, path, add_name_to_folder, obs) ==
    LET files == DeclaredFiles(torrent)
    IN  [i \in 1..Len(files) |->
            [fp |-> ExpectedPath(torrent, path, add_name_to_folder, files[i].path),
             f |-> Path(FALSE, files[i].path),
             size |-> files[i].length,
             exists |-> obs[i] = files[i].length]]

calculate_minimum_expected_data(torrent, path, add_name_to_folder, obs) ==
    LET files == map_existing_files(torrent, path, add_name_to_folder, obs)
        matched == {i \in 1..Len(files) : files[i].exists}
    IN  IF matched = 1..Len(files) THEN "full"
        ELSE IF matched = {} THEN "none"
        ELSE "high"

Rank(level) == CASE level = "none" -> 0 [] level = "high" -> 1 [] level = "full" -> 2

has_minimum_expected_data(expected_data, actual_data) ==
    Rank(actual_data) >= Rank(expected_data)

\* A mutant of GateRejects: the gate lets every call through.
GateNeverRejects(minimum_expected_data, current_expected_data) == FALSE

\* line 117: the condition under which add raises before anything else.
GateRejects(minimum_expected_data, current_expected_data) ==
    ~has_minimum_expected_data(minimum_expected_data, current_expected_data)

\* The observations a scan of this torrent's files can make.
Observations(torrent) == [1..Len(DeclaredFiles(torrent)) -> ObservedSizes]

(***************************************************************************)
(* Exceptions: the classes the transport raises and the adapter's own.     *)
(***************************************************************************)
Parent(cls) ==
    CASE cls = "ConnectionRefusedError" -> "ConnectionError"
      [] cls = "ConnectionError" -> "OSError"
      [] cls = "gaierror" -> "OSError"
      [] cls = "OSError" -> "Exception"
      [] cls = "RemoteException" -> "DelugeClientException"
      [] cls = "CallTimeoutException" -> "DelugeClientException"
      [] cls = "ConnectionLostException" -> "DelugeClientException"
      [] cls = "DelugeClientException" -> "Exception"
      [] cls = "FailedToExecuteException" -> "Exception"
      [] OTHER -> None

RECURSIVE IsInstance(_, _)
IsInstance(cls, base) ==
    IF cls = base THEN TRUE
    ELSE IF Parent(cls) = None THEN FALSE
    ELSE IsInstance(Parent(cls), base)

\* What connecting and logging in can raise: connection refused, the host
\* name not resolved, the daemon rejecting the credentials.
ConnectFailures == {"ConnectionRefusedError", "gaierror", "RemoteException"}

\* What a request on an open session can raise: the daemon answering with an
\* error, no answer in time, the connection dropped.
CallFailures == {"RemoteException", "CallTimeoutException", "ConnectionLostException"}

\* A mutant of Caught: the clause forgets OSError.
CaughtWithoutOSError(cls) ==
    \E base \in {"DelugeClientException", "ConnectionError"} : IsInstance(cls, base)

\* except (DelugeClientException, ConnectionError, OSError)
Caught(cls) ==
    \E base \in {"DelugeClientException", "ConnectionError", "OSError"} :
        IsInstance(cls, base)

FailedToExecute(msg) == [type |-> "FailedToExecuteException", msg |-> msg]

Raised(exc) == [kind |-> "raised", exc |-> exc]

Returned(value) == [kind |-> "returned", value |-> value]


(***************************************************************************)
(* add: the values computed between the gate and the request.              *)
(***************************************************************************)
\* A mutant of ResolvedDestination: line 119 left out.
UnresolvedDestination(destination_path) == destination_path

\* line 119
ResolvedDestination(destination_path) == Resolve(destination_path)

\* A mutant of MappedFiles: the indices counted from one.
MappedFilesFromOne(files) == [i \in 1..Len(files) |-> Str(files[i].f)]

\* lines 128-130: enumerate(files) numbers the entries from zero.
MappedFiles(files) == [i \in 0..(Len(files) - 1) |-> Str(files[i + 1].f)]

\* A mutant of AddOptions: seed mode always on.
AddOptionsAlwaysSeed(torrent, destination_path, fast_resume, add_name_to_folder, obs) ==
    [download_location |-> Str(destination_path), seed_mode |-> TRUE]

\* lines 122-131, destination_path being the resolved path
AddOptions(torrent, destination_path, fast_resume, add_name_to_folder, obs) ==
    IF add_name_to_folder
    THEN [download_location |-> Str(destination_path), seed_mode |-> fast_resume]
    ELSE [download_location |-> Str(destination_path), seed_mode |-> fast_resume,
          mapped_files |->
              MappedFiles(map_existing_files(torrent, destination_path, FALSE, obs))]

(***************************************************************************)
(* The daemon.                                                             *)
(***************************************************************************)
\* The infohash the daemon derives from the payload it is given: it decodes
\* the payload and digests the info mapping.
DaemonTorrentId(filedump) ==
    LET torrent == CHOOSE t \in Torrents : EncodedTorrent(t) = filedump
    IN  Sha1Hex(BencodeInfo(torrent.info))

\* The infohash of a torrent that is none of Torrents.
ForeignId == "sha1(other)"

\* The infohashes of the model, in the order the daemon lists them.
IdOrder == << Sha1Hex(BencodeInfo(SingleTorrent.info)),
              Sha1Hex(BencodeInfo(MultiTorrent.info)),
              ForeignId >>

AllIds == {IdOrder[i] : i \in 1..Len(IdOrder)}

NativeStates == {"Seeding", "Downloading", "Error", "Paused", "Queued"}

Request(method, params) == [method |-> method, params |-> params]

(***************************************************************************)
(* The listing (lines 60-86).  Of a record's fields the model keeps the    *)
(* infohash and the state.                                                 *)
(***************************************************************************)
\* A mutant of MapState: "Downloading" is not taken for active.
MapStateSeedingOnly(state) ==
    IF state \in {"Seeding"} THEN "ACTIVE"
    ELSE IF state \in {"Error"} THEN "ERROR"
    ELSE "STOPPED"

\* lines 61-66
MapState(state) ==
    IF state \in {"Seeding", "Downloading"} THEN "ACTIVE"
    ELSE IF state \in {"Error"} THEN "ERROR"
    ELSE "STOPPED"

\* lines 60-86: torrents is the reply, a sequence of <<infohash, torrent_data>>.
TorrentDataList(torrents) ==
    [i \in 1..Len(torrents) |->
        [infohash |-> torrents[i][1], state |-> MapState(torrents[i][2].state)]]

RECURSIVE Replies(_, _)
\* The replies to get_torrents_status that list the torrents of `ids`, each
\* in some native state; `from` is the position in IdOrder to go on from.
Replies(ids, from) ==
    IF from > Len(IdOrder) THEN { <<>> }
    ELSE LET rest == Replies(ids, from + 1)
         IN  IF IdOrder[from] \in ids
             THEN { <<  <<IdOrder[from], [state |-> st]>> >> \o r :
                        st \in NativeStates, r \in rest }
             ELSE rest

(***************************************************************************)
(* The end of a call.                                                      *)
(***************************************************************************)
\* A mutant of HandleFailure: no except clause, the exception goes on as it is.
HandleFailureMissing(o, cls) == Raised([type |-> cls, msg |-> <<>>])

\* The except clause of the operation `o` for the exception class `cls`:
\* lines 58-59, 98-99, 105-106, 112-113, 136-137, 146-147.
HandleFailure(o, cls) ==
    IF Caught(cls)
    THEN (IF o = "test_connection" THEN Returned(FALSE)
          ELSE Raised(FailedToExecute(<<>>)))
    ELSE Raised([type |-> cls, msg |-> <<>>])

\* A mutant of IdentityCheck: the reply is not compared.
IdentityCheckSkipped(reply, expected) == Returned(None)

\* lines 139-140
IdentityCheck(reply, expected) ==
    IF reply # expected THEN Raised(FailedToExecute(<<>>)) ELSE Returned(None)

\* What the operation `o` does with the reply once the with block is left.
Complete(o, reply, expected) ==
    CASE o = "add" -> IdentityCheck(reply, expected)
      [] o \in {"list", "list_active"} -> Returned(TorrentDataList(reply))
      [] o = "test_connection" -> Returned(reply # None)
      [] OTHER -> Returned(None)

\* A mutant of AfterRequest: a failed request is issued again.
RetryAfterFailure(failure) == IF failure # None THEN "call" ELSE "exit"

\* Where control goes from the request: out of the with block, the request
\* having returned or raised (lines 56-59, 96-99 and alike).
AfterRequest(failure) == "exit"


(***************************************************************************)
(* The adapter object (lines 36-41).                                       *)
(***************************************************************************)
NoObject == [object |-> FALSE]

\* The directory the daemon keeps its session in, as the caller writes it.
SessionDir == "/s"

\* The strings the model gives for a session path, and the paths they spell.
ParsePath(string) ==
    CASE string = "/s" -> Path(TRUE, <<"s">>)
      [] string = "s" -> Path(FALSE, <<"s">>)

\* pathlib.Path(x): the path x spells, and TypeError when x is None.
PathOf(x) ==
    IF x = None THEN [raises |-> "TypeError"]
    ELSE [raises |-> None, path |-> ParsePath(x)]

\* __init__, lines 36-41: the object, or the exception that leaves none.
Construct(host, port, username, password, session_path) ==
    LET converted == PathOf(session_path)
    IN  IF converted.raises # None
        THEN [raises |-> converted.raises]
        ELSE [raises |-> None,
              object |-> [host |-> host, port |-> port, username |-> username,
                          password |-> password, session_path |-> converted.path]]

\* The adapter of the model: made for a daemon whose session directory is known.
TheAdapter == Construct("host", "58846", "user", "secret", SessionDir).object

(***************************************************************************)
(* The state after construction, and the operations.                       *)
(***************************************************************************)
Running == [kind |-> "running"]

\* What the specifications that do not use them keep `aside` at.
NoPrevious == [kind |-> "none"]

NoPair == [stage |-> "none"]

\* The concurrent callers of the model.
Threads == {1, 2}

NoThreads == [t \in Threads |-> [pc |-> "idle"]]

NoClients == <<>>

InitAside ==
    /\ previous = NoPrevious
    /\ pair = NoPair
    /\ threads = NoThreads
    /\ clients = NoClients
    /\ created = 0

\* The adapter is constructed and no call is running.
InitCall ==
    /\ self = TheAdapter
    /\ pc = "idle"
    /\ op = "none"
    /\ args = <<>>
    /\ observed = <<>>
    /\ gate = "none"
    /\ encoded_torrent = None
    /\ infohash = None
    /\ options = None
    /\ sent = <<>>
    /\ connects = 0
    /\ sessions = 0
    /\ pending = None
    /\ result = None
    /\ daemon = {}
    /\ before = {}
    /\ outcome = [kind |-> "none"]

Init == InitAside /\ InitCall

\* A call of the operation `o` with the arguments `a` begins.
Begin(o, a) ==
    /\ pc = "idle"
    /\ op' = o
    /\ args' = a
    /\ sent' = <<>>
    /\ connects' = 0
    /\ pending' = None
    /\ result' = None
    /\ before' = daemon
    /\ UNCHANGED <<self, sessions, daemon>>
    /\ UNCHANGED aside

NoAddLocals ==
    /\ observed' = <<>>
    /\ gate' = "none"
    /\ encoded_torrent' = None
    /\ infohash' = None
    /\ options' = None

\* add, lines 115-131: the scan, the gate and the values of the request.
AddCall ==
    \E torrent \in Torrents, destination_path \in Destinations,
       fast_resume \in BOOLEAN, add_name_to_folder \in BOOLEAN,
       minimum_expected_data \in MinimumExpectedData :
      \E obs \in Observations(torrent) :
        LET current_expected_data ==
                calculate_minimum_expected_data(torrent, destination_path,
                                                add_name_to_folder, obs)
            resolved == ResolvedDestination(destination_path)
        IN  /\ Begin("add", [torrent |-> torrent,
                             destination_path |-> destination_path,
                             fast_resume |-> fast_resume,
                             add_name_to_folder |-> add_name_to_folder,
                             minimum_expected_data |-> minimum_expected_data])
            /\ observed' = obs
            /\ IF GateRejects(minimum_expected_data, current_expected_data)
               THEN /\ gate' = "reject"
                    /\ encoded_torrent' = None
                    /\ infohash' = None
                    /\ options' = None
                    /\ outcome' = Raised(FailedToExecute(
                           <<"Minimum expected data not reached",
                             minimum_expected_data, current_expected_data>>))
                    /\ pc' = "done"
               ELSE /\ gate' = "accept"
                    /\ encoded_torrent' = EncodedTorrent(torrent)
                    /\ infohash' = Infohash(torrent)
                    /\ options' = AddOptions(torrent, resolved, fast_resume,
                                             add_name_to_folder, obs)
                    /\ outcome' = Running
                    /\ pc' = "enter"

\* A mutant of ListFilter: list_active asks for every torrent.
ListFilterNone(o) == <<>>

\* The filter of list ({}, line 89) and of list_active ({"state": "Active"},
\* line 92).
ListFilter(o) == IF o = "list" THEN <<>> ELSE <<"state", "Active">>

\* list (lines 88-89) and list_active (lines 91-92), up to the with block.
ListCall ==
    \E o \in {"list", "list_active"} :
        /\ Begin(o, [filter |-> ListFilter(o)])
        /\ NoAddLocals
        /\ outcome' = Running
        /\ pc' = "enter"

\* start (94), stop (101) and remove (142), up to the with block.
TorrentCall ==
    \E o \in {"start", "stop", "remove"}, h \in AllIds :
        /\ Begin(o, [infohash |-> h])
        /\ NoAddLocals
        /\ outcome' = Running
        /\ pc' = "enter"

\* test_connection (108), up to the with block.
TestConnectionCall ==
    /\ Begin("test_connection", <<>>)
    /\ NoAddLocals
    /\ outcome' = Running
    /\ pc' = "enter"

\* A mutant of TorrentPath: the "state" directory left out.
TorrentPathWithoutState(session_path, h) == Join(session_path, <<h \o ".torrent">>)

\* line 150
TorrentPath(session_path, h) == Join(session_path, <<"state", h \o ".torrent">>)

\* The files that may be found in the session directory: the copy the daemon
\* keeps of each torrent, and a file outside the state directory.
SessionFiles ==
    {"/s/state/" \o h \o ".torrent" : h \in AllIds} \cup {"/s/" \o ForeignId \o ".torrent"}

\* Path.read_bytes(): the content of the file at `name`.
ReadBytes(name) == <<"bytes of", name>>

\* retrieve_torrentfile, lines 149-153; `found` are the files there are.
RetrieveTorrentfile ==
    \E h \in AllIds, found \in SUBSET SessionFiles :
        LET torrent_path == TorrentPath(self.session_path, h)
        IN  /\ Begin("retrieve_torrentfile", [infohash |-> h])
            /\ observed' = found
            /\ gate' = "none"
            /\ encoded_torrent' = None
            /\ infohash' = None
            /\ options' = None
            /\ outcome' = IF Str(torrent_path) \notin found
                          THEN Raised(FailedToExecute(<<>>))
                          ELSE Returned(ReadBytes(Str(torrent_path)))
            /\ pc' = "done"

\* `with self.client as client`: a new DelugeRPCClient connects and logs in.
Enter ==
    /\ pc = "enter"
    /\ connects' = connects + 1
    /\ \/ /\ sessions' = sessions + 1
          /\ pc' = "call"
          /\ UNCHANGED <<outcome, pending>>
       \/ \E cls \in ConnectFailures :
          /\ pending' = cls
          /\ outcome' = HandleFailure(op, cls)
          /\ pc' = "done"
          /\ UNCHANGED sessions
    /\ UNCHANGED <<self, op, args, observed, gate, encoded_torrent, infohash,
                   options, sent, result, daemon, before>>
    /\ UNCHANGED aside

\* The request of the call in progress.
TheRequest ==
    CASE op = "add" ->
            Request("core.add_torrent_file", <<"torrent.torrent", encoded_torrent, options>>)
      [] op \in {"list", "list_active"} ->
            Request("core.get_torrents_status", <<args.filter, "keys">>)
      [] op = "start" -> Request("core.resume_torrent", <<args.infohash>>)
      [] op = "stop" -> Request("core.pause_torrent", <<args.infohash>>)
      [] op = "remove" -> Request("core.remove_torrent", <<args.infohash, FALSE>>)
      [] op = "test_connection" -> Request("core.get_free_space", <<>>)

\* The request is sent; the daemon is left as `d`; the request returns `reply`
\* when `failure` is None and raises `failure` otherwise.
Answer(d, reply, failure) ==
    /\ sent' = Append(sent, TheRequest)
    /\ daemon' = d
    /\ result' = reply
    /\ pending' = failure
    /\ pc' = AfterRequest(failure)

\* core.add_torrent_file (line 135).  The daemon adds the torrent of the
\* payload and answers its infohash; or it adds nothing and answers None; or
\* it adds another torrent and answers that one's infohash; or the request
\* fails, before or after the daemon has acted on it.
CallAdd ==
    /\ op = "add"
    /\ LET id == DaemonTorrentId(encoded_torrent)
       IN  \/ Answer(daemon \cup {id}, id, None)
           \/ Answer(daemon, None, None)
           \/ Answer(daemon \cup {ForeignId}, ForeignId, None)
           \/ \E cls \in CallFailures, d \in {daemon, daemon \cup {id}} :
                  Answer(d, None, cls)

\* core.get_torrents_status (line 57): list is answered with every torrent
\* the daemon holds, list_active with those the daemon's filter selects.
CallList ==
    /\ op \in {"list", "list_active"}
    /\ \/ \E ids \in (IF op = "list" THEN {daemon} ELSE SUBSET daemon) :
              \E reply \in Replies(ids, 1) : Answer(daemon, reply, None)
       \/ \E cls \in CallFailures : Answer(daemon, None, cls)

\* core.resume_torrent (97) and core.pause_torrent (104).
CallStartStop ==
    /\ op \in {"start", "stop"}
    /\ \/ Answer(daemon, None, None)
       \/ \E cls \in CallFailures : Answer(daemon, None, cls)

\* core.remove_torrent (145): the daemon removes a torrent it holds and
\* answers with an error for one it does not hold.
CallRemove ==
    /\ op = "remove"
    /\ \/ /\ args.infohash \in daemon
          /\ Answer(daemon \ {args.infohash}, TRUE, None)
       \/ \E cls \in CallFailures, d \in {daemon, daemon \ {args.infohash}} :
              Answer(d, None, cls)

\* What get_free_space may answer: a number of bytes, written in decimal, or
\* nothing.
FreeSpaceReplies == {None, "0", "7"}

\* core.get_free_space (111)
CallFreeSpace ==
    /\ op = "test_connection"
    /\ \/ \E space \in FreeSpaceReplies : Answer(daemon, space, None)
       \/ \E cls \in CallFailures : Answer(daemon, None, cls)

Call ==
    /\ pc = "call"
    /\ CallAdd \/ CallList \/ CallStartStop \/ CallRemove \/ CallFreeSpace
    /\ UNCHANGED <<self, op, args, observed, gate, encoded_torrent, infohash,
                   options, connects, sessions, before, outcome>>
    /\ UNCHANGED aside

\* A mutant of SessionsAfterExit: the session is closed by the last statement
\* of the block, which a failing request does not reach.
SessionsAfterFallingThrough(n, failure) == IF failure # None THEN n ELSE n - 1

\* The with statement runs __exit__, which disconnects, however the block ends.
SessionsAfterExit(n, failure) == n - 1

\* The with block is left (DelugeRPCClient.__exit__ disconnects), then the
\* except clause or the rest of the operation runs.
Exit ==
    /\ pc = "exit"
    /\ sessions' = SessionsAfterExit(sessions, pending)
    /\ outcome' = IF pending # None THEN HandleFailure(op, pending)
                  ELSE Complete(op, result, infohash)
    /\ pc' = "done"
    /\ UNCHANGED <<self, op, args, observed, gate, encoded_torrent, infohash,
                   options, sent, connects, pending, result, daemon, before>>
    /\ UNCHANGED aside

\* The call has ended: the caller has its outcome, the locals are gone.
Returning ==
    /\ pc = "done"
    /\ pc' = "idle"
    /\ op' = "none"
    /\ args' = <<>>
    /\ NoAddLocals
    /\ sent' = <<>>
    /\ connects' = 0
    /\ pending' = None
    /\ result' = None
    /\ before' = daemon
    /\ outcome' = [kind |-> "none"]
    /\ UNCHANGED <<self, sessions, daemon>>
    /\ UNCHANGED others

Return == Returning /\ UNCHANGED previous

Next ==
    \/ AddCall
    \/ ListCall
    \/ TorrentCall
    \/ TestConnectionCall
    \/ RetrieveTorrentfile
    \/ Enter
    \/ Call
    \/ Exit
    \/ Return

Spec == Init /\ [][Next]_vars


(***************************************************************************)
(* Properties of add.                                                      *)
(***************************************************************************)
\* The infohash of the torrent add was called with: the hex SHA-1 of the
\* encoded info mapping.
LocalInfohash == Sha1Hex(BencodeInfo(args.torrent.info))

\* Some declared file is missing or has a size other than its declared length.
SomeFileNotMatched ==
    \E i \in DOMAIN observed : observed[i] # DeclaredFiles(args.torrent)[i].length

\* The options of the request add has sent.
SentOptions == sent[1].params[3]

InsufficientData(exc) ==
    /\ exc.type = "FailedToExecuteException"
    /\ Len(exc.msg) = 3
    /\ exc.msg[1] = "Minimum expected data not reached"

\* C1: add called with minimum_expected_data = "full" while a declared file
\* is missing or of another size than declared raises the insufficient-data
\* failure, naming "full" and the level found, and has neither entered a
\* session nor sent a request.
C1_FullGateRejectsBeforeBackend ==
    (op = "add" /\ args.minimum_expected_data = "full" /\ SomeFileNotMatched) =>
        /\ pc = "done"
        /\ outcome.kind = "raised"
        /\ InsufficientData(outcome.exc)
        /\ outcome.exc.msg[2] = "full"
        /\ outcome.exc.msg[3] \in {"none", "high"}
        /\ connects = 0
        /\ sessions = 0
        /\ sent = <<>>

\* C1 witness: add with "full" has ended with one file missing and another
\* of a wrong size.
C1_Witness ==
    /\ op = "add"
    /\ pc = "done"
    /\ args.minimum_expected_data = "full"
    /\ \E i \in DOMAIN observed : observed[i] = Absent
    /\ \E i \in DOMAIN observed :
           observed[i] \notin {Absent, DeclaredFiles(args.torrent)[i].length}
    /\ outcome.kind = "raised"

\* C2: in a call of add the request is sent at most once, only with the gate
\* evaluated and passed, and never again after a request has failed; a call
\* the gate rejects has ended raising, with nothing resolved, no session
\* entered and no request sent.
C2_RequestOnceAfterGate ==
    /\ [](op = "add" =>
            /\ Len(sent) <= 1
            /\ (sent # <<>> => gate = "accept")
            /\ (connects > 0 => gate = "accept")
            /\ (gate = "reject" =>
                    /\ pc = "done"
                    /\ outcome.kind = "raised"
                    /\ options = None
                    /\ connects = 0
                    /\ sent = <<>>))
    /\ [][(op = "add" /\ Len(sent') > Len(sent)) =>
              /\ gate = "accept"
              /\ sent = <<>>
              /\ pending = None
              /\ sent' = <<Request("core.add_torrent_file",
                                   <<"torrent.torrent", encoded_torrent, options>>)>>]_vars

\* C2 witness: a request of add has failed and the call has ended.
C2_Witness ==
    /\ op = "add"
    /\ pc = "done"
    /\ Len(sent) = 1
    /\ pending \in CallFailures

\* C3: when the request of add has returned a value other than the local
\* infohash, add raises and does not return.
C3_MismatchRaises ==
    (/\ op = "add"
     /\ Len(sent) = 1
     /\ pending = None
     /\ result # LocalInfohash) =>
        /\ outcome.kind # "returned"
        /\ pc = "done" => outcome = Raised(FailedToExecute(<<>>))

\* C3 witness: the daemon has answered another infohash and add has ended.
C3_Witness ==
    /\ op = "add"
    /\ pc = "done"
    /\ pending = None
    /\ Len(sent) = 1
    /\ result \in AllIds \ {LocalInfohash}
    /\ outcome.kind = "raised"

\* C4: add returns if and only if the gate passed, the request was sent and
\* came back without a failure, and the answer is the local infohash; in
\* every other case add has raised.
C4_ReturnsOnlyWhenVerified ==
    (op = "add" /\ pc = "done") =>
        /\ outcome.kind \in {"returned", "raised"}
        /\ outcome.kind = "returned" <=>
              /\ gate = "accept"
              /\ Len(sent) = 1
              /\ pending = None
              /\ result = LocalInfohash

\* C4 witness: add has returned.
C4_Witness ==
    /\ op = "add"
    /\ pc = "done"
    /\ outcome.kind = "returned"

\* C5 as claimed: a call of add that has raised leaves the daemon's torrents
\* as they were when the call began.
C5_FailedAddLeavesDaemon ==
    (op = "add" /\ pc = "done" /\ outcome.kind = "raised") => daemon = before

\* The gate, evaluated on the arguments and the scan of the call.
ArgsPassGate ==
    has_minimum_expected_data(
        args.minimum_expected_data,
        calculate_minimum_expected_data(args.torrent, args.destination_path,
                                        args.add_name_to_folder, observed))

\* C5 as amended: a call of add that fails before its request is sent (the
\* gate rejects, or connecting fails) leaves the daemon's torrents as they
\* were; a call that fails later has sent its one request and nothing else,
\* so the daemon has lost nothing and keeps what it added.
C5_FailureBeforeRequestLeavesDaemon ==
    (op = "add" /\ pc = "done") =>
        /\ ~ArgsPassGate => (outcome.kind = "raised" /\ daemon = before)
        /\ (outcome.kind = "raised" /\ sent = <<>>) => daemon = before
        /\ (outcome.kind = "raised" /\ sent # <<>>) =>
              (Len(sent) = 1 /\ before \subseteq daemon)

\* C5 witness: add has raised and the daemon holds a torrent it did not hold
\* when the call began.
C5_Witness ==
    /\ op = "add"
    /\ pc = "done"
    /\ outcome.kind = "raised"
    /\ daemon # before

\* C6: the options add sends have, when add_name_to_folder is false, a
\* mapped_files mapping from exactly the indices 0..n-1 of the n declared
\* files, index i to the relative path of the i-th declared file; when
\* add_name_to_folder is true they have no mapped_files.
C6_MappedFiles ==
    (op = "add" /\ sent # <<>>) =>
        LET files == DeclaredFiles(args.torrent)
        IN  IF args.add_name_to_folder
            THEN "mapped_files" \notin DOMAIN SentOptions
            ELSE /\ "mapped_files" \in DOMAIN SentOptions
                 /\ DOMAIN SentOptions.mapped_files = 0..(Len(files) - 1)
                 /\ \A i \in 0..(Len(files) - 1) :
                        SentOptions.mapped_files[i] = JoinStr(files[i + 1].path)

\* C6 witness: add has sent the options of a torrent of several files with
\* add_name_to_folder false.
C6_Witness ==
    /\ op = "add"
    /\ sent # <<>>
    /\ ~args.add_name_to_folder
    /\ Len(DeclaredFiles(args.torrent)) > 1
    /\ "mapped_files" \in DOMAIN SentOptions

\* C7: the options add sends have seed_mode equal to fast_resume and
\* download_location equal to the string of the resolved destination.
C7_SeedModeAndLocation ==
    (op = "add" /\ sent # <<>>) =>
        /\ SentOptions.seed_mode = args.fast_resume
        /\ SentOptions.download_location = Str(Resolve(args.destination_path))

\* C7 witness: add has sent options whose download_location is not the
\* string of the path the caller passed.
C7_Witness ==
    /\ op = "add"
    /\ sent # <<>>
    /\ args.fast_resume
    /\ SentOptions.download_location # Str(args.destination_path)

\* The case of C8: a torrent of one file, found with its declared size, and
\* minimum_expected_data = "full".
SingleFilePresent ==
    /\ op = "add"
    /\ IsSingle(args.torrent)
    /\ observed[1] = args.torrent.info.length
    /\ args.minimum_expected_data = "full"

\* C8 as claimed: in that case the request is sent with seed_mode true.
C8_SeedModeTrue ==
    (SingleFilePresent /\ sent # <<>>) => SentOptions.seed_mode = TRUE

\* C8 as amended: in that case add passes the gate, sends seed_mode equal to
\* fast_resume (true when the caller asks for fast resume, false by default)
\* and returns when the answer is the local infohash.
C8_SingleFilePresentSucceeds ==
    SingleFilePresent =>
        /\ gate = "accept"
        /\ sent # <<>> => SentOptions.seed_mode = args.fast_resume
        /\ (pc = "done" /\ Len(sent) = 1 /\ pending = None /\ result = LocalInfohash)
              => outcome = Returned(None)

\* C8 witness: in that case, with fast_resume, add has returned.
C8_Witness ==
    /\ SingleFilePresent
    /\ args.fast_resume
    /\ pc = "done"
    /\ Len(sent) = 1
    /\ SentOptions.seed_mode = TRUE
    /\ result = LocalInfohash
    /\ outcome.kind = "returned"

(***************************************************************************)
(* Properties of the failures of the transport.                            *)
(***************************************************************************)
\* C9: test_connection never raises; it returns false when connecting or the
\* request failed, and true only when get_free_space was answered.
C9_TestConnectionNeverRaises ==
    (op = "test_connection" /\ pc = "done") =>
        /\ outcome.kind = "returned"
        /\ outcome.value \in BOOLEAN
        /\ pending # None => outcome.value = FALSE
        /\ outcome.value = TRUE => (Len(sent) = 1 /\ pending = None /\ result # None)

\* C9 witness: test_connection has ended after the host name did not resolve.
C9_Witness ==
    /\ op = "test_connection"
    /\ pc = "done"
    /\ pending = "gaierror"
    /\ outcome = Returned(FALSE)

\* C10: when connecting or the request fails in list, list_active, start,
\* stop, add or remove, the call raises FailedToExecuteException: it does not
\* return, and no other exception leaves it.
C10_TransportFailureRaised ==
    (/\ op \in {"list", "list_active", "start", "stop", "add", "remove"}
     /\ pending # None) =>
        /\ outcome.kind # "returned"
        /\ pc = "done" =>
              (outcome.kind = "raised" /\ outcome.exc.type = "FailedToExecuteException")

\* C10 witness: the connection was lost during the request of list_active.
C10_Witness ==
    /\ op = "list_active"
    /\ pc = "done"
    /\ pending = "ConnectionLostException"
    /\ Len(sent) = 1
    /\ outcome.kind = "raised"


(***************************************************************************)
(* Properties of the listing, of the sessions and of the stored files.     *)
(***************************************************************************)
\* C12: list and list_active return one TorrentData for each record of the
\* reply, in the reply's order, with the record's infohash and with state
\* ACTIVE for "Seeding" and "Downloading", ERROR for "Error" and STOPPED for
\* every other native state.
C12_StateMapping ==
    (op \in {"list", "list_active"} /\ pc = "done" /\ pending = None) =>
        /\ outcome.kind = "returned"
        /\ Len(outcome.value) = Len(result)
        /\ \A i \in 1..Len(result) :
              /\ outcome.value[i].infohash = result[i][1]
              /\ outcome.value[i].state =
                    (CASE result[i][2].state = "Seeding" -> "ACTIVE"
                       [] result[i][2].state = "Downloading" -> "ACTIVE"
                       [] result[i][2].state = "Error" -> "ERROR"
                       [] OTHER -> "STOPPED")

\* C12 witness: list has returned the data of a downloading torrent, of one
\* in error and of a queued one.
C12_Witness ==
    /\ op = "list"
    /\ pc = "done"
    /\ outcome.kind = "returned"
    /\ Len(outcome.value) = 3
    /\ {result[i][2].state : i \in 1..3} = {"Downloading", "Error", "Queued"}

\* C13 as claimed: every TorrentData list_active returns has state ACTIVE.
C13_ListActiveAllActive ==
    (op = "list_active" /\ pc = "done" /\ outcome.kind = "returned") =>
        \A i \in 1..Len(outcome.value) : outcome.value[i].state = "ACTIVE"

\* C13 as amended: list_active asks the daemon for the torrents of its filter
\* "Active" and returns the data of every record of the answer, filtering
\* nothing itself: a TorrentData has state ACTIVE exactly when its record is
\* "Seeding" or "Downloading".
C13_ListActiveFilteredByDaemon ==
    (op = "list_active" /\ sent # <<>>) =>
        /\ sent = <<Request("core.get_torrents_status", << <<"state", "Active">>, "keys" >>)>>
        /\ (pc = "done" /\ pending = None) =>
              /\ outcome.kind = "returned"
              /\ Len(outcome.value) = Len(result)
              /\ \A i \in 1..Len(result) :
                    outcome.value[i].state = "ACTIVE"
                        <=> result[i][2].state \in {"Seeding", "Downloading"}

\* C13 witness: list_active has returned the data of a seeding torrent and of
\* a paused one.
C13_Witness ==
    /\ op = "list_active"
    /\ pc = "done"
    /\ outcome.kind = "returned"
    /\ {result[i][2].state : i \in 1..Len(result)} = {"Seeding", "Paused"}
    /\ {outcome.value[i].state : i \in 1..Len(result)} = {"ACTIVE", "STOPPED"}

C18_RetrieveTorrentfile ==
    op = "retrieve_torrentfile" =>
        LET name == "/s/state/" \o args.infohash \o ".torrent"
        IN  /\ pc = "done"
            /\ name \in observed => outcome = Returned(<<"bytes of", name>>)
            /\ name \notin observed =>
                  (outcome.kind = "raised" /\ outcome.exc.type = "FailedToExecuteException")
            /\ connects = 0
            /\ sessions = 0
            /\ sent = <<>>
            /\ daemon = before

\* C18 witness: the file asked for is there, among others, and its bytes are
\* returned.
C18_Witness ==
    /\ op = "retrieve_torrentfile"
    /\ pc = "done"
    /\ args.infohash = ForeignId
    /\ observed = SessionFiles
    /\ outcome.kind = "returned"


(***************************************************************************)
(* Construction.  The specification SpecNew starts with no adapter; the     *)
(* caller makes one, with a session path or with the default None, and     *)
(* calls the operations of the adapter it has.                             *)
(***************************************************************************)
\* The values the caller gives for session_path; None is the default.
SessionPathArguments == {None, SessionDir}

InitNew ==
    /\ InitAside
    /\ self = NoObject
    /\ pc = "idle"
    /\ op = "none"
    /\ args = <<>>
    /\ observed = <<>>
    /\ gate = "none"
    /\ encoded_torrent = None
    /\ infohash = None
    /\ options = None
    /\ sent = <<>>
    /\ connects = 0
    /\ sessions = 0
    /\ pending = None
    /\ result = None
    /\ daemon = {}
    /\ before = {}
    /\ outcome = [kind |-> "none"]

\* DelugeClient(host, port, username, password[, session_path])
New ==
    /\ pc = "idle"
    /\ self = NoObject
    /\ \E session_path \in SessionPathArguments :
        LET made == Construct("host", "58846", "user", "secret", session_path)
        IN  /\ op' = "__init__"
            /\ args' = [session_path |-> session_path]
            /\ self' = IF made.raises = None THEN made.object ELSE NoObject
            /\ outcome' = IF made.raises = None THEN Returned(None)
                          ELSE Raised([type |-> made.raises, msg |-> <<>>])
    /\ pc' = "done"
    /\ NoAddLocals
    /\ UNCHANGED <<sent, connects, sessions, pending, result, daemon, before>>
    /\ UNCHANGED aside

\* An operation is called on the adapter there is.
Operate == self # NoObject /\ Next

\* The caller is left without an adapter.
NewFailed == self = NoObject /\ Return

NextNew == New \/ Operate \/ NewFailed

SpecNew == InitNew /\ [][NextNew]_vars

\* C17: an adapter made without a session path is made, and the operations
\* other than retrieve_torrentfile can be called on it.
C17_DefaultSessionPathConstructs ==
    (op = "__init__" /\ pc = "done" /\ args.session_path = None) =>
        /\ outcome.kind = "returned"
        /\ self # NoObject


(***************************************************************************)
(* The errors of add.  The specification SpecErrors has the caller         *)
(* remember the error of its last failed add; its calls of add are those   *)
(* with an absolute destination, no fast resume and the name folder.       *)
(***************************************************************************)
\* How the call of add that has raised failed.
FailureKind ==
    IF gate = "reject" THEN "gate rejection"
    ELSE IF pending # None THEN "transport failure"
    ELSE "identity mismatch"

AddPlain ==
    /\ AddCall
    /\ args'.destination_path = Path(TRUE, <<"w", "d">>)
    /\ ~args'.fast_resume
    /\ args'.add_name_to_folder

ReturnRemembering ==
    /\ Returning
    /\ previous' = IF op = "add" /\ outcome.kind = "raised"
                   THEN [kind |-> FailureKind, error |-> outcome.exc]
                   ELSE previous

NextErrors == AddPlain \/ Enter \/ Call \/ Exit \/ ReturnRemembering

SpecErrors == Init /\ [][NextErrors]_vars

\* C11: the error of a failed add tells how it failed: a gate rejection
\* carries the level wanted and the level found, and no two calls that failed
\* in different ways (gate rejection, transport failure, identity mismatch)
\* raise the same error.
C11_FailureKindsDistinct ==
    (op = "add" /\ pc = "done" /\ outcome.kind = "raised") =>
        /\ gate = "reject" =>
              /\ Len(outcome.exc.msg) = 3
              /\ outcome.exc.msg[2] = args.minimum_expected_data
              /\ outcome.exc.msg[3] \in MinimumExpectedData
        /\ (previous.kind # "none" /\ previous.error = outcome.exc) =>
              previous.kind = FailureKind


(***************************************************************************)
(* The expected infohash as a function of the torrent.  The specification  *)
(* SpecInfohash takes two torrents and a reply of the daemon and applies   *)
(* line 121 and the identity check of lines 139-140 to both.               *)
(***************************************************************************)
\* Torrents that differ in keys other than info, and torrents that differ
\* in one key of info.
TorrentVariants ==
    { SingleTorrent,
      [SingleTorrent EXCEPT !.announce = "u"],
      [SingleTorrent EXCEPT !.info.name = "b"],
      [SingleTorrent EXCEPT !.info.length = 1],
      [SingleTorrent EXCEPT !.info.pieces = "q"],
      MultiTorrent,
      [MultiTorrent EXCEPT !.announce = "u"],
      [MultiTorrent EXCEPT !.info.files = << MultiTorrent.info.files[2],
                                             MultiTorrent.info.files[1] >>] }

\* What core.add_torrent_file may reply: nothing, or the id of a torrent.
VariantReplies == {None} \cup {Sha1Hex(BencodeInfo(t.info)) : t \in TorrentVariants}

InitInfohash ==
    /\ InitCall
    /\ previous = NoPrevious
    /\ threads = NoThreads
    /\ clients = NoClients
    /\ created = 0
    /\ \E a \in TorrentVariants, b \in TorrentVariants, reply \in VariantReplies :
          pair = [stage |-> "given", a |-> a, b |-> b, reply |-> reply]

\* infohash = hashlib.sha1(bencode(torrent[b"info"])).hexdigest()
TakeInfohash ==
    /\ pair.stage = "given"
    /\ pair' = [stage |-> "hashed", a |-> pair.a, b |-> pair.b,
                reply |-> pair.reply,
                infohash_a |-> Infohash(pair.a),
                infohash_b |-> Infohash(pair.b)]
    /\ UNCHANGED <<callvars, previous, threads, clients, created>>

\* if result != infohash: raise FailedToExecuteException()
CheckIdentity ==
    /\ pair.stage = "hashed"
    /\ pair' = [stage |-> "checked", a |-> pair.a, b |-> pair.b,
                reply |-> pair.reply,
                infohash_a |-> pair.infohash_a,
                infohash_b |-> pair.infohash_b,
                outcome_a |-> IdentityCheck(pair.reply, pair.infohash_a),
                outcome_b |-> IdentityCheck(pair.reply, pair.infohash_b)]
    /\ UNCHANGED <<callvars, previous, threads, clients, created>>

NextInfohash == TakeInfohash \/ CheckIdentity

SpecInfohash == InitInfohash /\ [][NextInfohash]_vars

\* C16: the expected infohash is a function of the info mapping alone: two
\* torrents with the same info, whatever their other keys, get the same
\* infohash and the same outcome of the identity check against any reply, and
\* two torrents whose info differs get different infohashes.
C16_InfohashOfInfoAlone ==
    /\ pair.stage \in {"hashed", "checked"} =>
          (pair.a.info = pair.b.info) = (pair.infohash_a = pair.infohash_b)
    /\ pair.stage = "checked" =>
          (pair.a.info = pair.b.info => pair.outcome_a = pair.outcome_b)

\* Two torrents that differ outside info only were checked against the reply
\* that names them: both calls returned.
C16_Witness ==
    /\ pair.stage = "checked"
    /\ pair.a.info = pair.b.info
    /\ pair.a # pair.b
    /\ pair.reply = pair.infohash_a
    /\ pair.outcome_a = Returned(None)


(***************************************************************************)
(* Concurrent callers.  The specification SpecThreads has the callers of   *)
(* Threads call add, list, start and stop on the one adapter, each call    *)
(* running `with self.client as client:` step by step: the property makes *)
(* the client, __enter__ connects it, the call sends one request on it and *)
(* waits for the response on it, __exit__ disconnects it.  The daemon      *)
(* answers a request on the connection it came on.                         *)
(***************************************************************************)
\* The calls one caller makes.
MaxCalls == 2

ThreadOps == {"add", "list", "start", "stop"}

NoClient == 0

NoMessage == <<>>

\* A mutant of ClientObject: the adapter keeps the client it made first.
ClientObjectKept(made) == 1

\* The object an access of the property `client` returns, `made` clients
\* having been made before: DelugeRPCClient(...) makes a new one.
ClientObject(made) == made + 1

\* DelugeRPCClient(host=self.host, port=self.port, username=self.username,
\* password=self.password, decode_utf8=True), not yet connected.
NewClient(config) ==
    [host |-> config.host, port |-> config.port,
     username |-> config.username, password |-> config.password,
     connected |-> FALSE, calls |-> {}, outbox |-> <<>>, inbox |-> <<>>]

\* The response of the daemon to a request.
Response(request) == <<"response", request>>

TimedOut == <<"raised">>

InitThreads ==
    /\ InitCall
    /\ previous = NoPrevious
    /\ pair = NoPair
    /\ threads = [t \in Threads |->
                    [pc |-> "idle", op |-> "none", calls |-> 0,
                     client |-> NoClient, request |-> NoMessage,
                     response |-> NoMessage]]
    /\ clients = NoClients
    /\ created = 0

\* A caller calls an operation; the call evaluates self.client.
ThreadCall(t) ==
    /\ threads[t].pc = "idle"
    /\ threads[t].calls < MaxCalls
    /\ \E o \in ThreadOps :
          LET c == ClientObject(created)
          IN  /\ threads' = [threads EXCEPT ![t] =
                    [pc |-> "made", op |-> o, calls |-> @.calls + 1,
                     client |-> c, request |-> NoMessage,
                     response |-> NoMessage]]
              /\ clients' = IF c > Len(clients)
                            THEN Append(clients, NewClient(self))
                            ELSE clients
              /\ created' = IF c > created THEN c ELSE created
    /\ UNCHANGED <<callvars, previous, pair>>

\* client.__enter__(): the call connects the client it holds.
ThreadEnter(t) ==
    /\ threads[t].pc = "made"
    /\ LET c == threads[t].client
       IN  clients' = [clients EXCEPT ![c].connected = TRUE,
                                      ![c].calls = @ \cup {<<t, threads[t].calls>>}]
    /\ threads' = [threads EXCEPT ![t].pc = "entered"]
    /\ UNCHANGED <<callvars, previous, pair, created>>

\* client.core.<method>(...): the request goes out on the call's client.
ThreadSend(t) ==
    /\ threads[t].pc = "entered"
    /\ LET c == threads[t].client
           request == <<t, threads[t].calls, threads[t].op>>
       IN  /\ clients' = [clients EXCEPT ![c].outbox = Append(@, request)]
           /\ threads' = [threads EXCEPT ![t].pc = "sent",
                                         ![t].request = request]
    /\ UNCHANGED <<callvars, previous, pair, created>>

\* The daemon answers the oldest request of a connection on that connection.
DaemonAnswer(c) ==
    /\ clients[c].connected
    /\ clients[c].outbox # <<>>
    /\ clients' = [clients EXCEPT
                      ![c].outbox = Tail(@),
                      ![c].inbox = Append(@, Response(Head(clients[c].outbox)))]
    /\ UNCHANGED <<callvars, previous, pair, threads, created>>

\* The call takes the next response that arrived on its client.
ThreadReceive(t) ==
    /\ threads[t].pc = "sent"
    /\ LET c == threads[t].client
       IN  /\ clients[c].inbox # <<>>
           /\ threads' = [threads EXCEPT ![t].pc = "answered",
                                         ![t].response = Head(clients[c].inbox)]
           /\ clients' = [clients EXCEPT ![c].inbox = Tail(@)]
    /\ UNCHANGED <<callvars, previous, pair, created>>

\* The call gives up waiting: the request raises.
ThreadTimeout(t) ==
    /\ threads[t].pc = "sent"
    /\ threads' = [threads EXCEPT ![t].pc = "answered",
                                  ![t].response = TimedOut]
    /\ UNCHANGED <<callvars, previous, pair, clients, created>>

\* client.__exit__(): the call disconnects its client, which drops what was
\* in flight on the connection, and ends.
ThreadExit(t) ==
    /\ threads[t].pc = "answered"
    /\ clients' = [clients EXCEPT ![threads[t].client].connected = FALSE,
                                  ![threads[t].client].outbox = <<>>,
                                  ![threads[t].client].inbox = <<>>]
    /\ threads' = [threads EXCEPT ![t] =
          [pc |-> "idle", op |-> "none", calls |-> @.calls,
           client |-> NoClient, request |-> NoMessage, response |-> NoMessage]]
    /\ UNCHANGED <<callvars, previous, pair, created>>

NextThreads ==
    \/ \E t \in Threads :
          \/ ThreadCall(t)
          \/ ThreadEnter(t)
          \/ ThreadSend(t)
          \/ ThreadReceive(t)
          \/ ThreadTimeout(t)
          \/ ThreadExit(t)
    \/ \E c \in 1..Len(clients) : DaemonAnswer(c)

SpecThreads == InitThreads /\ [][NextThreads]_vars

\* C15: concurrent calls of add, list, start and stop share no state the
\* adapter holds: under every interleaving the client of a call was made for
\* that call and no other call ever holds or has held it, a response a call
\* receives is the response to its own request, and the configuration stays
\* what the construction made it, every client being made from it.
C15_CallsShareNoSession ==
    /\ \A c \in 1..Len(clients) :
          /\ Cardinality(clients[c].calls) <= 1
          /\ \A i \in 1..Len(clients[c].inbox) :
                clients[c].inbox[i][2] \in {<<k[1], k[2], o>> : k \in clients[c].calls, o \in ThreadOps}
          /\ clients[c].host = TheAdapter.host
          /\ clients[c].port = TheAdapter.port
          /\ clients[c].username = TheAdapter.username
          /\ clients[c].password = TheAdapter.password
    /\ \A t \in Threads :
          /\ threads[t].client # NoClient =>
                /\ threads[t].client \in 1..Len(clients)
                /\ clients[threads[t].client].calls \subseteq {<<t, threads[t].calls>>}
                /\ \A u \in Threads \ {t} : threads[u].client # threads[t].client
          /\ threads[t].pc = "answered" =>
                threads[t].response \in {Response(threads[t].request), TimedOut}
    /\ self = TheAdapter

\* Two calls are in their with blocks at once, the second caller's request
\* was sent before the first caller's was answered, and the first caller has
\* its response.
C15_Witness ==
    /\ threads[1].pc = "answered"
    /\ threads[1].response = Response(threads[1].request)
    /\ threads[2].pc = "sent"
    /\ threads[1].client # threads[2].client
    /\ clients[threads[2].client].inbox # <<>>

=============================================================================
